---- MODULE Spec2Model ----
(***************************************************************************)
(* A model of the VideoPlayer component of                                 *)
(* src/client/src/pages/video-player.tsx: its React state, the closures    *)
(* its memoised callbacks capture, the <video> element it drives, the      *)
(* element's queued media events, the pending autoplay promise and the     *)
(* auto-hide timers.                                                       *)
(*                                                                         *)
(* Every handler runs to completion, followed by the re-render and the     *)
(* effects it triggers (React 18 flushes the updates of an event handler   *)
(* before the next event is dispatched), so one action is one handler with *)
(* its effects.                                                            *)
(*                                                                         *)
(* Times are whole seconds, volumes are tenths (the slider's step is 0.1). *)
(***************************************************************************)
EXTENDS Integers, Sequences, FiniteSets

\* ------------------------------------------------------------------ bounds
\* Most media events the element may hold queued for dispatch.
MaxEvents == 2
\* Timer handles the platform hands out at one time.
MaxTimers == 2
\* Most pointer events handled before the component re-renders.
MaxBurst == 2
\* requestFullscreen() / exitFullscreen() calls of one kind not yet settled
MaxFsCalls == 2
\* fullscreenchange events queued at once
MaxFsEvents == 2

\* ------------------------------------------------------- program constants
\* ArrowLeft / ArrowRight seek distance, in seconds (lines 155, 160).
SeekStep == 10
\* The volume slider's max, in tenths (min="0" max="1" step="0.1").
VolumeMax == 10

\* ------------------------------------------------------------ input sets
\* Length of the served media file, in seconds.
MediaDurations == {120}
\* Seconds of playback between two timeupdate events.
PlaybackAdvances == {5}
\* rect.width of the progress bar, in pixels.
BarWidths == {24}
\* e.clientX - rect.left of a click the bar's onClick receives: inside the
\* bar, on its edges, and on the part of the thumb that overhangs the
\* right edge (the thumb is a child of the bar, so its clicks bubble).
ClickXs == {0, 12, 23, 24, 26}
\* Slider positions the user picks, in tenths.
Volumes == {0, 5, VolumeMax}
TimerIds == 1..MaxTimers
NoTimer == 0

EventNames == {"loadstart", "canplay", "error", "play", "pause", "timeupdate"}

VARIABLES
    \* React state (lines 7-16)
    isLoading, hasError, isPlaying, isMuted, currentTime, duration, volume,
    showControls, controlsTimeout,
    \* isPlaying as captured by the togglePlayPause that the memoised
    \* handleKeyDown (deps [duration]) calls
    kdIsPlaying,
    \* the <video> element
    elState, elPaused, elMuted, elVolume, elCurrentTime, mediaDuration,
    \* media events queued by the element, oldest first
    events,
    \* the promise returned by the play() call of handleCanPlay
    autoplay,
    \* live timers, each with the isPlaying its callback captured
    timers,
    mounted,
    \* the call the last step made on the element or the document
    issued,
    \* React state (line 14)
    isFullscreen,
    \* document.fullscreenElement is not null
    fullscreenElement,
    \* requestFullscreen() / exitFullscreen() promises not yet settled
    fsPending,
    \* fullscreenchange events queued by the document
    fsEvents

reactVars == <<isLoading, hasError, isPlaying, isMuted, currentTime, duration,
               volume, showControls, controlsTimeout, kdIsPlaying>>
elemVars == <<elState, elPaused, elMuted, elVolume, elCurrentTime,
              mediaDuration, events, autoplay>>
fsVars == <<isFullscreen, fullscreenElement, fsPending, fsEvents>>
vars == <<reactVars, elemVars, timers, mounted, issued, fsVars>>

Min(a, b) == IF a < b THEN a ELSE b
Max(a, b) == IF a > b THEN a ELSE b

Call(op, arg) == [op |-> op, arg |-> arg]
NoCall == Call("none", 0)

\* ------------------------------------------------------------- rendering
\* The phase the view shows: the error overlay is rendered after (on top
\* of) the loading overlay, both cover the player (lines 203-227).
Phase ==
    IF hasError THEN "Errored"
    ELSE IF isLoading THEN "Loading"
    ELSE IF isPlaying THEN "Playing"
    ELSE "Paused"

\* className of the controls overlay (line 258).
OverlayVisible == showControls \/ ~isPlaying

\* The loading and error overlays are absolute inset-0 z-20 siblings of the
\* player area: while one is rendered, pointer events do not reach the
\* player area or its controls.
ControlsReachable == ~isLoading /\ ~hasError

\* The "Try Again" button is rendered inside the error overlay (line 213).
RetryOffered == hasError

\* No promise reaction is waiting: a rejected promise's catch callback is a
\* microtask, it runs before any other event is dispatched.
NoMicrotask == autoplay # "rejected"

Ready == mounted /\ NoMicrotask

\* ------------------------------------------------------------- effects
\* useEffect([isPlaying]) (lines 184-188): runs when isPlaying changed, and
\* shows the controls when the new value is false.
AfterIsPlayingEffect(old, new, sc) == IF old # new /\ ~new THEN TRUE ELSE sc

\* handleKeyDown is useCallback(..., [duration]) (lines 141-164): it is
\* re-created, with the togglePlayPause of that render, only by a render in
\* which duration changed.
AfterDurationRender(oldDuration, newDuration, newIsPlaying, kd) ==
    IF newDuration # oldDuration THEN newIsPlaying ELSE kd

\* ------------------------------------------------------------------ Init
\* The state after the first render and its mount effects: the effect of
\* lines 184-188 has set showControls (isPlaying is false), the element
\* has started to fetch its source and has queued loadstart.
Init ==
    /\ isLoading = TRUE
    /\ hasError = FALSE
    /\ isPlaying = FALSE
    /\ isMuted = TRUE
    /\ currentTime = 0
    /\ duration = 0
    /\ volume = VolumeMax
    /\ showControls = TRUE
    /\ controlsTimeout = NoTimer
    /\ kdIsPlaying = FALSE
    /\ elState = "loading"
    /\ elPaused = TRUE
    /\ elMuted = TRUE
    /\ elVolume = VolumeMax
    /\ elCurrentTime = 0
    /\ mediaDuration \in MediaDurations
    /\ events = <<"loadstart">>
    /\ autoplay = "none"
    /\ timers = {}
    /\ mounted = TRUE
    /\ issued = NoCall
    /\ isFullscreen = FALSE
    /\ fullscreenElement = FALSE
    /\ fsPending = [request |-> 0, exit |-> 0]
    /\ fsEvents = 0

\* ------------------------------------------------- the element's calls
CanQueue == Len(events) < MaxEvents

\* Events left queued once the handler of the oldest one runs.
Rest == Tail(events)

\* play(): a paused element starts and queues a play event.
PlayEvents(q) == IF elPaused THEN Append(q, "play") ELSE q

\* pause(): a playing element stops and queues a pause event; the task that
\* fires it also rejects the play promises pending at the call.
PauseEvents(q) == IF elPaused THEN q ELSE Append(q, "pause")
PauseAutoplay == IF ~elPaused /\ autoplay = "pending" THEN "aborting" ELSE autoplay

\* load(): drops the queued events, settles the play promises (a pending
\* one of a playing element is rejected), pauses, rewinds, and starts the
\* fetch again, which queues loadstart.
LoadAutoplay ==
    IF autoplay = "aborting" \/ (autoplay = "pending" /\ ~elPaused)
    THEN "rejected" ELSE autoplay

\* The currentTime setter: before any data has loaded the value is kept as
\* the start position, afterwards the element seeks, and a seek lands
\* inside the media.
ElSeek(t) ==
    IF elState = "loading" THEN t ELSE Max(0, Min(t, mediaDuration))

\* ------------------------------------------------------ media handlers
Deliver(e) == Ready /\ events # <<>> /\ Head(events) = e

\* handleLoadStart (lines 24-27)
HandleLoadStart ==
    /\ Deliver("loadstart")
    /\ isLoading' = TRUE
    /\ hasError' = FALSE
    /\ events' = Rest
    /\ issued' = NoCall
    /\ UNCHANGED <<isPlaying, isMuted, currentTime, duration, volume,
                   showControls, controlsTimeout, kdIsPlaying>>
    /\ UNCHANGED <<elState, elPaused, elMuted, elVolume, elCurrentTime,
                   mediaDuration, autoplay, timers, mounted>>
    /\ UNCHANGED fsVars

\* What the play() of handleCanPlay leaves pending: a blocked autoplay
\* returns a rejected promise and starts nothing; an allowed one starts
\* the element and its promise waits for playback to begin.
CanPlayAutoplay(allowed) ==
    IF ~allowed THEN "rejected"
    ELSE IF autoplay = "aborting" THEN "aborting" ELSE "pending"

\* handleCanPlay (lines 29-39), up to the return of play()
HandleCanPlay ==
    /\ Deliver("canplay")
    /\ \E allowed \in BOOLEAN :
        /\ autoplay' = CanPlayAutoplay(allowed)
        /\ elPaused' = IF allowed THEN FALSE ELSE elPaused
        /\ events' = IF allowed THEN PlayEvents(Rest) ELSE Rest
    /\ isLoading' = FALSE
    /\ duration' = mediaDuration
    /\ kdIsPlaying' = AfterDurationRender(duration, duration', isPlaying, kdIsPlaying)
    /\ issued' = Call("play", 0)
    /\ UNCHANGED <<hasError, isPlaying, isMuted, currentTime, volume,
                   showControls, controlsTimeout>>
    /\ UNCHANGED <<elState, elMuted, elVolume, elCurrentTime, mediaDuration,
                   timers, mounted>>
    /\ UNCHANGED fsVars

\* The catch callback of handleCanPlay (lines 34-37); the setters of an
\* unmounted component do nothing.
AutoplayCatch ==
    /\ autoplay = "rejected"
    /\ autoplay' = "none"
    /\ hasError' = IF mounted THEN TRUE ELSE hasError
    /\ isLoading' = IF mounted THEN FALSE ELSE isLoading
    /\ issued' = NoCall
    /\ UNCHANGED <<isPlaying, isMuted, currentTime, duration, volume,
                   showControls, controlsTimeout, kdIsPlaying>>
    /\ UNCHANGED <<elState, elPaused, elMuted, elVolume, elCurrentTime,
                   mediaDuration, events, timers, mounted>>
    /\ UNCHANGED fsVars

\* The play() promise of handleCanPlay resolves once the element, having
\* fired play, begins playback; no callback is attached to that.
AutoplayResolve ==
    /\ Ready
    /\ autoplay = "pending"
    /\ elState = "ready"
    /\ \A i \in 1..Len(events) : events[i] # "play"
    /\ autoplay' = "none"
    /\ issued' = NoCall
    /\ UNCHANGED reactVars
    /\ UNCHANGED <<elState, elPaused, elMuted, elVolume, elCurrentTime,
                   mediaDuration, events, timers, mounted>>
    /\ UNCHANGED fsVars

\* handleError without its setIsLoading(false).
HandleErrorKeepsLoading ==
    /\ Deliver("error")
    /\ hasError' = TRUE
    /\ events' = Rest
    /\ issued' = NoCall
    /\ UNCHANGED <<isLoading, isPlaying, isMuted, currentTime, duration, volume,
                   showControls, controlsTimeout, kdIsPlaying>>
    /\ UNCHANGED <<elState, elPaused, elMuted, elVolume, elCurrentTime,
                   mediaDuration, autoplay, timers, mounted>>
    /\ UNCHANGED fsVars

\* handleError (lines 41-44)
HandleError ==
    /\ Deliver("error")
    /\ isLoading' = FALSE
    /\ hasError' = TRUE
    /\ events' = Rest
    /\ issued' = NoCall
    /\ UNCHANGED <<isPlaying, isMuted, currentTime, duration, volume,
                   showControls, controlsTimeout, kdIsPlaying>>
    /\ UNCHANGED <<elState, elPaused, elMuted, elVolume, elCurrentTime,
                   mediaDuration, autoplay, timers, mounted>>
    /\ UNCHANGED fsVars

\* handlePlay (lines 46-48)
HandlePlay ==
    /\ Deliver("play")
    /\ isPlaying' = TRUE
    /\ showControls' = AfterIsPlayingEffect(isPlaying, TRUE, showControls)
    /\ events' = Rest
    /\ issued' = NoCall
    /\ UNCHANGED <<isLoading, hasError, isMuted, currentTime, duration, volume,
                   controlsTimeout, kdIsPlaying>>
    /\ UNCHANGED <<elState, elPaused, elMuted, elVolume, elCurrentTime,
                   mediaDuration, autoplay, timers, mounted>>
    /\ UNCHANGED fsVars

\* handlePause (lines 50-52); the task that fired pause then rejects the
\* play promises that were pending when the element was paused.
HandlePause ==
    /\ Deliver("pause")
    /\ isPlaying' = FALSE
    /\ showControls' = AfterIsPlayingEffect(isPlaying, FALSE, showControls)
    /\ events' = Rest
    /\ autoplay' = IF autoplay = "aborting" THEN "rejected" ELSE autoplay
    /\ issued' = NoCall
    /\ UNCHANGED <<isLoading, hasError, isMuted, currentTime, duration, volume,
                   controlsTimeout, kdIsPlaying>>
    /\ UNCHANGED <<elState, elPaused, elMuted, elVolume, elCurrentTime,
                   mediaDuration, timers, mounted>>
    /\ UNCHANGED fsVars

\* handleTimeUpdate (lines 54-58)
HandleTimeUpdate ==
    /\ Deliver("timeupdate")
    /\ currentTime' = elCurrentTime
    /\ events' = Rest
    /\ issued' = NoCall
    /\ UNCHANGED <<isLoading, hasError, isPlaying, isMuted, duration, volume,
                   showControls, controlsTimeout, kdIsPlaying>>
    /\ UNCHANGED <<elState, elPaused, elMuted, elVolume, elCurrentTime,
                   mediaDuration, autoplay, timers, mounted>>
    /\ UNCHANGED fsVars

\* ---------------------------------------------------------- the element
\* The element has buffered enough to play: on the first load, and again
\* whenever playback can resume after a stall or a seek.
ElemCanPlay ==
    /\ Ready
    /\ elState \in {"loading", "ready"}
    /\ CanQueue
    /\ \A i \in 1..Len(events) : events[i] # "canplay"
    /\ elState' = "ready"
    /\ elCurrentTime' = Max(0, Min(elCurrentTime, mediaDuration))
    /\ events' = Append(events, "canplay")
    /\ issued' = NoCall
    /\ UNCHANGED reactVars
    /\ UNCHANGED <<elPaused, elMuted, elVolume, mediaDuration, autoplay,
                   timers, mounted>>
    /\ UNCHANGED fsVars

\* The fetch or the decoder fails.
ElemError ==
    /\ Ready
    /\ elState \in {"loading", "ready"}
    /\ CanQueue
    /\ elState' = "failed"
    /\ events' = Append(events, "error")
    /\ issued' = NoCall
    /\ UNCHANGED reactVars
    /\ UNCHANGED <<elPaused, elMuted, elVolume, elCurrentTime, mediaDuration,
                   autoplay, timers, mounted>>
    /\ UNCHANGED fsVars

\* The element starts by itself: the autoPlay attribute (line 239), or the
\* platform's media controls.
ElemPlay ==
    /\ Ready
    /\ elState = "ready"
    /\ elPaused
    /\ CanQueue
    /\ elPaused' = FALSE
    /\ events' = PlayEvents(events)
    /\ issued' = NoCall
    /\ UNCHANGED reactVars
    /\ UNCHANGED <<elState, elMuted, elVolume, elCurrentTime, mediaDuration,
                   autoplay, timers, mounted>>
    /\ UNCHANGED fsVars

\* The platform pauses the element (media controls, a hidden tab).
ElemPause ==
    /\ Ready
    /\ ~elPaused
    /\ CanQueue
    /\ elPaused' = TRUE
    /\ events' = PauseEvents(events)
    /\ autoplay' = PauseAutoplay
    /\ issued' = NoCall
    /\ UNCHANGED reactVars
    /\ UNCHANGED <<elState, elMuted, elVolume, elCurrentTime, mediaDuration,
                   timers, mounted>>
    /\ UNCHANGED fsVars

\* ------------------------------------------------------- user commands
\* togglePlayPause (lines 60-68), with the isPlaying its closure holds.
TogglePlayPause(seenPlaying) ==
    /\ (seenPlaying # elPaused) => CanQueue
    /\ IF seenPlaying
       THEN /\ elPaused' = TRUE
            /\ events' = PauseEvents(events)
            /\ autoplay' = PauseAutoplay
            /\ issued' = Call("pause", 0)
       ELSE /\ elPaused' = FALSE
            /\ events' = PlayEvents(events)
            /\ autoplay' = autoplay
            /\ issued' = Call("play", 0)
    /\ UNCHANGED reactVars
    /\ UNCHANGED <<elState, elMuted, elVolume, elCurrentTime, mediaDuration,
                   timers, mounted>>
    /\ UNCHANGED fsVars

\* A click on the play button or on the click overlay (lines 290, 352):
\* the togglePlayPause of the current render.
ClickPlayPause == Ready /\ ControlsReachable /\ TogglePlayPause(isPlaying)

\* handleKeyDown, case 'Space' (lines 143-146): the togglePlayPause that
\* the memoised handleKeyDown captured.
KeySpace == Ready /\ TogglePlayPause(kdIsPlaying)

\* handleRetry without its load() call.
HandleRetryWithoutLoad ==
    /\ Ready
    /\ RetryOffered
    /\ hasError' = FALSE
    /\ isLoading' = TRUE
    /\ issued' = NoCall
    /\ UNCHANGED <<isPlaying, isMuted, currentTime, duration, volume,
                   showControls, controlsTimeout, kdIsPlaying>>
    /\ UNCHANGED <<elemVars, timers, mounted>>
    /\ UNCHANGED fsVars

\* handleRetry without its setHasError(false)
HandleRetryKeepsError ==
    /\ Ready
    /\ RetryOffered
    /\ isLoading' = TRUE
    /\ elState' = "loading"
    /\ elPaused' = TRUE
    /\ elCurrentTime' = 0
    /\ events' = <<"loadstart">>
    /\ autoplay' = LoadAutoplay
    /\ issued' = Call("load", 0)
    /\ UNCHANGED <<hasError, isPlaying, isMuted, currentTime, duration,
                   volume, showControls, controlsTimeout, kdIsPlaying>>
    /\ UNCHANGED <<elMuted, elVolume, mediaDuration, timers, mounted>>
    /\ UNCHANGED fsVars

\* handleRetry (lines 116-122), the onClick of "Try Again" (line 220)
HandleRetry ==
    /\ Ready
    /\ RetryOffered
    /\ hasError' = FALSE
    /\ isLoading' = TRUE
    /\ elState' = "loading"
    /\ elPaused' = TRUE
    /\ elCurrentTime' = 0
    /\ events' = <<"loadstart">>
    /\ autoplay' = LoadAutoplay
    /\ issued' = Call("load", 0)
    /\ UNCHANGED <<isPlaying, isMuted, currentTime, duration, volume,
                   showControls, controlsTimeout, kdIsPlaying>>
    /\ UNCHANGED <<elMuted, elVolume, mediaDuration, timers, mounted>>
    /\ UNCHANGED fsVars

\* ------------------------------------------------------ auto-hide timer
LiveIds == {t.id : t \in timers}
Timer(id, playing) == [id |-> id, isPlaying |-> playing]

\* clearTimeout(h): the timer with handle h, if still live, is cancelled.
ClearTimeout(h, ts) == {t \in ts : t.id # h}

\* Handles setTimeout may return: not live, and not the one still held.
FreeIds == TimerIds \ (LiveIds \cup {controlsTimeout})
NewIds(n) == CHOOSE S \in SUBSET FreeIds : Cardinality(S) = n
MaxOf(S) == CHOOSE x \in S : \A y \in S : y <= x

\* showControlsTemporarily (lines 124-135), the handler of onMouseMove and
\* onTouchStart (lines 232-233), run for n pointer events that arrive
\* before the next render: each run sees the isPlaying and controlsTimeout
\* of the same render, clears that handle and arms a timer whose callback
\* keeps that isPlaying; the last setControlsTimeout wins.
ShowControlsTemporarily(n) ==
    /\ Ready
    /\ ControlsReachable
    /\ Cardinality(FreeIds) >= n
    /\ LET ids == NewIds(n)
       IN /\ timers' = ClearTimeout(controlsTimeout, timers)
                          \cup {Timer(i, isPlaying) : i \in ids}
          /\ controlsTimeout' = MaxOf(ids)
    /\ showControls' = TRUE
    /\ issued' = NoCall
    /\ UNCHANGED <<isLoading, hasError, isPlaying, isMuted, currentTime,
                   duration, volume, kdIsPlaying>>
    /\ UNCHANGED <<elemVars, mounted>>
    /\ UNCHANGED fsVars

PointerActivity == \E n \in 1..MaxBurst : ShowControlsTemporarily(n)

\* The callback of setTimeout (lines 129-133) runs, 3000 ms after it was
\* armed; the setters of an unmounted component do nothing.
TimerCallback(t) ==
    /\ NoMicrotask
    /\ t \in timers
    /\ timers' = timers \ {t}
    /\ showControls' = IF t.isPlaying /\ mounted THEN FALSE ELSE showControls
    /\ issued' = NoCall
    /\ UNCHANGED <<isLoading, hasError, isPlaying, isMuted, currentTime,
                   duration, volume, controlsTimeout, kdIsPlaying>>
    /\ UNCHANGED <<elemVars, mounted>>
    /\ UNCHANGED fsVars

TimerFires == \E t \in timers : TimerCallback(t)

\* Unmount: the cleanup of the effect of lines 190-196 clears the handle
\* held in controlsTimeout, the listeners are removed, the element is gone.
Unmount ==
    /\ Ready
    /\ mounted' = FALSE
    /\ timers' = ClearTimeout(controlsTimeout, timers)
    /\ issued' = NoCall
    /\ UNCHANGED <<reactVars, elemVars>>
    /\ UNCHANGED fsVars

\* ----------------------------------------------------------------- audio
\* toggleMute that also zeroes the volume when it mutes.
ToggleMuteZeroesVolume ==
    /\ elMuted' = ~elMuted
    /\ isMuted' = elMuted'
    /\ volume' = IF elMuted' THEN 0 ELSE volume
    /\ elVolume' = volume'
    /\ issued' = NoCall
    /\ UNCHANGED <<isLoading, hasError, isPlaying, currentTime, duration,
                   showControls, controlsTimeout, kdIsPlaying>>
    /\ UNCHANGED <<elState, elPaused, elCurrentTime, mediaDuration,
                   events, autoplay, timers, mounted>>
    /\ UNCHANGED fsVars

\* toggleMute (lines 70-75)
ToggleMute ==
    /\ elMuted' = ~elMuted
    /\ isMuted' = elMuted'
    /\ issued' = NoCall
    /\ UNCHANGED <<isLoading, hasError, isPlaying, currentTime, duration,
                   volume, showControls, controlsTimeout, kdIsPlaying>>
    /\ UNCHANGED <<elState, elPaused, elVolume, elCurrentTime, mediaDuration,
                   events, autoplay, timers, mounted>>
    /\ UNCHANGED fsVars

\* The mute button (line 303).
ClickMute == Ready /\ ControlsReachable /\ ToggleMute

\* handleKeyDown, case 'KeyM' (lines 147-149).
KeyM == Ready /\ ToggleMute

\* handleVolumeChange without its setIsMuted(false)
HandleVolumeChangeKeepsMuted(newVolume) ==
    /\ Ready
    /\ ControlsReachable
    /\ volume' = newVolume
    /\ elVolume' = newVolume
    /\ elMuted' = FALSE
    /\ issued' = NoCall
    /\ UNCHANGED <<isLoading, hasError, isPlaying, isMuted, currentTime,
                   duration, showControls, controlsTimeout, kdIsPlaying>>
    /\ UNCHANGED <<elState, elPaused, elCurrentTime, mediaDuration, events,
                   autoplay, timers, mounted>>
    /\ UNCHANGED fsVars

\* handleVolumeChange (lines 77-85), the onChange of the slider.
HandleVolumeChange(newVolume) ==
    /\ Ready
    /\ ControlsReachable
    /\ volume' = newVolume
    /\ elVolume' = newVolume
    /\ elMuted' = FALSE
    /\ isMuted' = FALSE
    /\ issued' = NoCall
    /\ UNCHANGED <<isLoading, hasError, isPlaying, currentTime, duration,
                   showControls, controlsTimeout, kdIsPlaying>>
    /\ UNCHANGED <<elState, elPaused, elCurrentTime, mediaDuration, events,
                   autoplay, timers, mounted>>
    /\ UNCHANGED fsVars

VolumeChange == \E v \in Volumes : HandleVolumeChange(v)

\* --------------------------------------------------------------- seeking
\* Assigning el.currentTime = t.
SetCurrentTime(t) ==
    /\ elCurrentTime' = ElSeek(t)
    /\ issued' = Call("seek", t)
    /\ UNCHANGED reactVars
    /\ UNCHANGED <<elState, elPaused, elMuted, elVolume, mediaDuration,
                   events, autoplay, timers, mounted>>
    /\ UNCHANGED fsVars

\* handleSeek that takes the progress as a percentage for the time.
SeekTargetPercent(clickX, width, dur) == (clickX * 100) \div width

\* progress * duration of handleSeek (lines 90-92).
SeekTarget(clickX, width, dur) == (clickX * dur) \div width

\* handleSeek (lines 87-94), the onClick of the progress bar.
HandleSeek(clickX, width) ==
    /\ Ready
    /\ ControlsReachable
    /\ SetCurrentTime(SeekTarget(clickX, width, duration))

ClickSeek == \E x \in ClickXs, w \in BarWidths : HandleSeek(x, w)

\* ArrowLeft without its Math.max(0, ...)
ArrowLeftUnclamped(now) == now - SeekStep

\* handleKeyDown, case 'ArrowLeft' (lines 153-157).
ArrowLeftTarget(now) == Max(0, now - SeekStep)
KeyArrowLeft == Ready /\ SetCurrentTime(ArrowLeftTarget(elCurrentTime))

\* ArrowRight without the Math.min.
ArrowRightUnclamped(now, dur) == now + SeekStep

\* handleKeyDown, case 'ArrowRight' (lines 158-162); duration is a
\* dependency of the memoised handler, so it is the current one.
ArrowRightTarget(now, dur) == Min(dur, now + SeekStep)
KeyArrowRight == Ready /\ SetCurrentTime(ArrowRightTarget(elCurrentTime, duration))

\* Playback advances and the element queues timeupdate; at the end the
\* loop attribute (line 240) restarts it.
ElemAdvance(d) ==
    /\ Ready
    /\ elState = "ready"
    /\ ~elPaused
    /\ events = <<>>
    /\ elCurrentTime' = IF elCurrentTime >= mediaDuration THEN 0
                        ELSE Min(elCurrentTime + d, mediaDuration)
    /\ events' = Append(events, "timeupdate")
    /\ issued' = NoCall
    /\ UNCHANGED reactVars
    /\ UNCHANGED <<elState, elPaused, elMuted, elVolume, mediaDuration,
                   autoplay, timers, mounted>>
    /\ UNCHANGED fsVars

Playback == \E d \in PlaybackAdvances : ElemAdvance(d)

\* ------------------------------------------------------------ fullscreen
\* toggleFullscreen deciding by the isFullscreen state instead of
\* document.fullscreenElement.
ToggleFullscreenByState ==
    LET kind == IF isFullscreen THEN "exit" ELSE "request"
    IN /\ fsPending[kind] < MaxFsCalls
       /\ fsPending' = [fsPending EXCEPT ![kind] = @ + 1]
       /\ issued' = Call(IF isFullscreen THEN "exitFullscreen"
                                         ELSE "requestFullscreen", 0)
       /\ UNCHANGED <<reactVars, elemVars, timers, mounted>>
       /\ UNCHANGED <<isFullscreen, fullscreenElement, fsEvents>>

\* toggleFullscreen (lines 96-114) up to its await: the call made depends
\* on document.fullscreenElement at the time of the command; the promise
\* it returns is pending.
ToggleFullscreen ==
    LET kind == IF fullscreenElement THEN "exit" ELSE "request"
    IN /\ fsPending[kind] < MaxFsCalls
       /\ fsPending' = [fsPending EXCEPT ![kind] = @ + 1]
       /\ issued' = Call(IF fullscreenElement THEN "exitFullscreen"
                                              ELSE "requestFullscreen", 0)
       /\ UNCHANGED <<reactVars, elemVars, timers, mounted>>
       /\ UNCHANGED <<isFullscreen, fullscreenElement, fsEvents>>

\* onClick of the fullscreen button (line 336), inside the controls.
ClickFullscreen == Ready /\ ControlsReachable /\ ToggleFullscreen

\* KeyF of handleKeyDown (lines 150-152); the document listener is there
\* in every phase.
KeyF == Ready /\ ToggleFullscreen

\* container.requestFullscreen() is granted: the document has a fullscreen
\* element, queues fullscreenchange if that is a change, and resolves the
\* promise; the code after the await (line 102) runs as a microtask.
RequestFullscreenResolves ==
    /\ NoMicrotask
    /\ fsPending.request > 0
    /\ fullscreenElement \/ fsEvents < MaxFsEvents
    /\ fsPending' = [fsPending EXCEPT !.request = @ - 1]
    /\ fullscreenElement' = TRUE
    /\ fsEvents' = IF fullscreenElement THEN fsEvents ELSE fsEvents + 1
    /\ isFullscreen' = IF mounted THEN TRUE ELSE isFullscreen
    /\ issued' = NoCall
    /\ UNCHANGED <<reactVars, elemVars, timers, mounted>>

\* document.exitFullscreen() succeeds: the document has no fullscreen
\* element, queues fullscreenchange if that is a change, and resolves the
\* promise; the code after the await (line 109) runs as a microtask.
ExitFullscreenResolves ==
    /\ NoMicrotask
    /\ fsPending.exit > 0
    /\ ~fullscreenElement \/ fsEvents < MaxFsEvents
    /\ fsPending' = [fsPending EXCEPT !.exit = @ - 1]
    /\ fullscreenElement' = FALSE
    /\ fsEvents' = IF fullscreenElement THEN fsEvents + 1 ELSE fsEvents
    /\ isFullscreen' = IF mounted THEN FALSE ELSE isFullscreen
    /\ issued' = NoCall
    /\ UNCHANGED <<reactVars, elemVars, timers, mounted>>

\* A rejected promise: the catch block logs it (lines 103-105, 110-112).
FullscreenRejects(kind) ==
    /\ fsPending[kind] > 0
    /\ fsPending' = [fsPending EXCEPT ![kind] = @ - 1]
    /\ issued' = Call("console.error", 0)
    /\ UNCHANGED <<reactVars, elemVars, timers, mounted>>
    /\ UNCHANGED <<isFullscreen, fullscreenElement, fsEvents>>

RequestFullscreenRejects == NoMicrotask /\ FullscreenRejects("request")
ExitFullscreenRejects == NoMicrotask /\ FullscreenRejects("exit")

\* The user leaves fullscreen by the platform's own means (Escape): the
\* document drops its fullscreen element and queues fullscreenchange.
EscapeFullscreen ==
    /\ NoMicrotask
    /\ fullscreenElement
    /\ fsEvents < MaxFsEvents
    /\ fullscreenElement' = FALSE
    /\ fsEvents' = fsEvents + 1
    /\ issued' = NoCall
    /\ UNCHANGED <<reactVars, elemVars, timers, mounted>>
    /\ UNCHANGED <<isFullscreen, fsPending>>

\* handleFullscreenChange that negates the state.
HandleFullscreenChangeToggles ==
    /\ Ready
    /\ fsEvents > 0
    /\ fsEvents' = fsEvents - 1
    /\ isFullscreen' = ~isFullscreen
    /\ issued' = NoCall
    /\ UNCHANGED <<reactVars, elemVars, timers, mounted>>
    /\ UNCHANGED <<fullscreenElement, fsPending>>

\* handleFullscreenChange (lines 174-176), the document's fullscreenchange
\* listener while mounted (lines 178-181).
HandleFullscreenChange ==
    /\ Ready
    /\ fsEvents > 0
    /\ fsEvents' = fsEvents - 1
    /\ isFullscreen' = fullscreenElement
    /\ issued' = NoCall
    /\ UNCHANGED <<reactVars, elemVars, timers, mounted>>
    /\ UNCHANGED <<fullscreenElement, fsPending>>

\* -------------------------------------------------------- specifications
MediaEvents ==
    \/ HandleLoadStart
    \/ HandleCanPlay
    \/ HandleError
    \/ HandlePlay
    \/ HandlePause

Element ==
    \/ ElemCanPlay
    \/ ElemError
    \/ ElemPlay
    \/ ElemPause
    \/ AutoplayResolve
    \/ AutoplayCatch

PlayCommands ==
    \/ ClickPlayPause
    \/ KeySpace
    \/ HandleRetry

OverlayNext ==
    \/ PointerActivity
    \/ TimerFires
    \/ Unmount

AudioNext ==
    \/ ClickMute
    \/ KeyM
    \/ VolumeChange

SeekNext ==
    \/ ClickSeek
    \/ KeyArrowLeft
    \/ KeyArrowRight
    \/ Playback
    \/ HandleTimeUpdate

FullscreenNext ==
    \/ ClickFullscreen
    \/ KeyF
    \/ RequestFullscreenResolves
    \/ RequestFullscreenRejects
    \/ ExitFullscreenResolves
    \/ ExitFullscreenRejects
    \/ EscapeFullscreen
    \/ HandleFullscreenChange

Next ==
    \/ MediaEvents
    \/ Element
    \/ PlayCommands
    \/ OverlayNext
    \/ AudioNext
    \/ SeekNext
    \/ FullscreenNext

Spec == Init /\ [][Next]_vars

\* Playback state machine and overlay.
NextPlayer == MediaEvents \/ Element \/ PlayCommands \/ OverlayNext
SpecPlayer == Init /\ [][NextPlayer]_vars

\* Playback state machine with the audio commands.
NextAudio == MediaEvents \/ Element \/ PlayCommands \/ AudioNext
SpecAudio == Init /\ [][NextAudio]_vars

\* Playback state machine with seeking and the advance of playback.
NextSeek == MediaEvents \/ Element \/ PlayCommands \/ SeekNext
SpecSeek == Init /\ [][NextSeek]_vars

\* Playback state machine with the fullscreen commands.
NextFullscreen == MediaEvents \/ Element \/ PlayCommands \/ FullscreenNext
SpecFullscreen == Init /\ [][NextFullscreen]_vars

\* ================================================================ claims
Errored == hasError /\ ~isLoading
Queued(e) == \E i \in 1..Len(events) : events[i] = e

\* C1: in every reachable state the player is not both Playing and Errored,
\* nor both Playing and Loading: isPlaying is never true while hasError or
\* isLoading is true.
C1_PlayingExcludesErroredAndLoading == isPlaying => ~hasError /\ ~isLoading

\* C2: the handler of a native error event leaves the player Errored
\* (hasError, not isLoading) with no loadstart left queued, and from
\* Errored no step other than the retry command and the loadstart it
\* causes -- in particular no outcome of the autoplay request and no event
\* that was queued when the error arrived -- leaves Errored.
C2_ErrorForcesErrored ==
    [][ /\ HandleError => Errored' /\ ~Queued("loadstart")'
        /\ Errored /\ ~HandleRetry /\ ~HandleLoadStart => Errored' ]_vars

\* C2 witness: the error has been handled while the play event of the
\* autoplay request and its promise are still pending.
C2_Witness ==
    /\ Errored
    /\ elState = "failed"
    /\ events = <<"play">>
    /\ autoplay = "pending"

\* C3: retry is taken only from Errored (the button is rendered only
\* then), and right after it isLoading is true, hasError is false and
\* load() has been called on the element, which restarts its fetch.
C3_RetryReloads ==
    [][ HandleRetry =>
          /\ Errored
          /\ isLoading' /\ ~hasError'
          /\ issued' = Call("load", 0)
          /\ elState' = "loading" /\ events' = <<"loadstart">> ]_vars

\* C3 witness: the state right after a retry.
C3_Witness ==
    /\ issued = Call("load", 0)
    /\ isLoading /\ ~hasError
    /\ Phase = "Loading"

\* C4: whenever the phase is not Playing (Loading, Paused or Errored) the
\* controls overlay is visible.
C4_ControlsVisibleUnlessPlaying == Phase # "Playing" => OverlayVisible

\* C5: while the phase is Playing and the overlay is shown, a timer is live
\* whose callback hides the overlay when it fires. (Only a timer callback
\* hides the overlay, so where this fails the overlay stays shown however
\* long the pointer rests.)
C5_PlayingOverlayWillHide ==
    mounted /\ Phase = "Playing" /\ OverlayVisible
        => \E t \in timers : t.isPlaying

\* C6: a Space key press issues pause() when the player is Playing and
\* play() when it is not.
C6_SpaceTogglesCurrentState ==
    [][ KeySpace =>
          issued' = Call(IF isPlaying THEN "pause" ELSE "play", 0) ]_vars

\* C7: when the autoplay request of handleCanPlay is rejected the player
\* becomes Errored, and when it succeeds the phase becomes Playing.
C7_AutoplayOutcome ==
    [][ /\ AutoplayCatch /\ mounted => Errored'
        /\ AutoplayResolve => Phase' = "Playing" ]_vars

\* C8: a volume change to v stores v and unmutes; toggleMute flips the mute
\* flag of the element and of the state and changes no stored volume -- so
\* after setVolume(v), toggleMute, toggleMute the player is unmuted with
\* volume v.
C8_MuteKeepsVolume ==
    [][ /\ \A v \in Volumes : HandleVolumeChange(v) =>
              volume' = v /\ elVolume' = v /\ ~isMuted' /\ ~elMuted'
        /\ ClickMute \/ KeyM =>
              /\ volume' = volume /\ elVolume' = elVolume
              /\ isMuted' = ~isMuted /\ elMuted' = ~elMuted ]_vars

\* C8 witness: muted again with the volume the slider set still stored
\* (a volume change unmutes, so toggleMute ran after it).
C8_Witness == isMuted /\ elMuted /\ volume = 5 /\ elVolume = 5

\* C9: ArrowRight assigns min(duration, currentTime + 10) to the element's
\* currentTime and ArrowLeft assigns max(0, currentTime - 10); the element
\* then is at that time, inside [0, duration]; from 115 of 120 ArrowRight
\* gives 120.
C9_ArrowSeekClamped ==
    [][ /\ KeyArrowRight =>
              /\ issued' = Call("seek", Min(duration, elCurrentTime + SeekStep))
              /\ elCurrentTime' = issued'.arg
              /\ 0 <= elCurrentTime' /\ elCurrentTime' <= duration
              /\ elCurrentTime = 115 /\ duration = 120 => elCurrentTime' = 120
        /\ KeyArrowLeft =>
              /\ issued' = Call("seek", Max(0, elCurrentTime - SeekStep))
              /\ elCurrentTime' = issued'.arg
              /\ 0 <= elCurrentTime' /\ elCurrentTime' <= duration ]_vars

\* C9 witness: the element at 120 of 120 by a seek, the last timeupdate
\* handled having been at 115.
C9_Witness ==
    /\ issued = Call("seek", 120)
    /\ elCurrentTime = 120
    /\ currentTime = 115
    /\ duration = 120

\* C10: a click at offset x on a bar of width w assigns (x / w) * duration
\* to the element's currentTime, which for a click inside the bar is where
\* the element then is; the midpoint of a 120 s media gives 60.
C10_SeekProportional ==
    [][ \A x \in ClickXs, w \in BarWidths : HandleSeek(x, w) =>
          /\ issued'.op = "seek"
          /\ issued'.arg * w = x * duration
          /\ 0 <= x /\ x <= w => elCurrentTime' = issued'.arg
          /\ 2 * x = w /\ duration = 120 => elCurrentTime' = 60 ]_vars

\* C10 witness: the element at 60 of 120 by a seek.
C10_Witness ==
    /\ issued = Call("seek", 60)
    /\ elCurrentTime = 60
    /\ duration = 120

\* C11: a timer callback sets the visibility flag to false only if the
\* player is Playing when it fires; fired while not playing it leaves the
\* flag as it is.
C11_TimerHidesOnlyWhilePlaying ==
    [][ TimerFires /\ showControls /\ ~showControls' => isPlaying ]_vars

\* C12: at most one auto-hide timer is live.
C12_AtMostOneTimer == Cardinality(timers) <= 1

\* C13: once the component is unmounted no auto-hide timer is live.
C13_NoTimerAfterUnmount == ~mounted => timers = {}

\* The autoplay promise has been rejected by something later than the
\* play() call of handleCanPlay: its catch callback is due, and the last
\* step was not that play() call.
RejectedLater == autoplay = "rejected" /\ issued # Call("play", 0)

\* C14: when the autoplay request settles after a later event (a pause, a
\* retry), the phase that event established stays: the catch callback of a
\* request rejected later, and the resolution, leave the phase as it is.
C14_LaterEventSupersedesAutoplay ==
    [][ /\ AutoplayCatch /\ mounted /\ RejectedLater => Phase' = Phase
        /\ AutoplayResolve => Phase' = Phase ]_vars

\* C15: the error flag, once set, is cleared only by the retry command.
C15_ErrorClearedOnlyByRetry ==
    [][ hasError /\ ~hasError' => HandleRetry ]_vars

\* C16: once the duration is known, the playback position, in the state and
\* on the element, lies between 0 and the duration.
C16_CurrentTimeInRange ==
    duration > 0 => /\ 0 <= currentTime /\ currentTime <= duration
                    /\ 0 <= elCurrentTime /\ elCurrentTime <= duration

\* A click right of the progress bar asked for a position beyond the
\* duration, and the element stands at the duration.
C16_Witness ==
    /\ duration > 0
    /\ issued.op = "seek" /\ issued.arg > duration
    /\ elCurrentTime = duration

\* C17: the isMuted state equals the element's muted flag.
C17_MutedMirrorsElement == isMuted = elMuted

\* Unmuted by the mute button, the volume never touched.
C17_Witness == ~isMuted /\ ~elMuted /\ volume = VolumeMax /\ ~isLoading

\* C20: isLoading and hasError are never both true.
C20_LoadingExcludesErrored == ~(isLoading /\ hasError)

\* An error event arrived while the first load was in progress.
C20_Witness ==
    /\ hasError /\ ~isLoading
    /\ duration = 0 /\ elState = "failed" /\ events = <<>>

\* C18: toggleFullscreen requests fullscreen when the document has no
\* fullscreen element and exits it otherwise; a rejected request or exit
\* leaves isFullscreen and the playback flags as they were.
C18_ToggleFullscreen ==
    [][ /\ (ClickFullscreen \/ KeyF) =>
              /\ issued' = Call(IF fullscreenElement THEN "exitFullscreen"
                                ELSE "requestFullscreen", 0)
              /\ fsPending'.request = fsPending.request
                                      + (IF fullscreenElement THEN 0 ELSE 1)
              /\ fsPending'.exit = fsPending.exit
                                   + (IF fullscreenElement THEN 1 ELSE 0)
        /\ (RequestFullscreenRejects \/ ExitFullscreenRejects) =>
              /\ isFullscreen' = isFullscreen
              /\ UNCHANGED <<isLoading, hasError, isPlaying>> ]_vars

\* A rejection was just logged while the video plays in fullscreen.
C18_Witness ==
    /\ issued = Call("console.error", 0)
    /\ isFullscreen /\ fullscreenElement /\ isPlaying

\* No request, exit or fullscreenchange event is pending.
FullscreenSettled ==
    fsPending.request = 0 /\ fsPending.exit = 0 /\ fsEvents = 0

\* C19: while mounted and with nothing pending, isFullscreen is true exactly
\* when the document has a fullscreen element.
C19_FullscreenMirrorsPlatform ==
    mounted /\ FullscreenSettled => isFullscreen = fullscreenElement

\* Fullscreen was entered by a command, its fullscreenchange event has been
\* handled and nothing is pending, while the video plays.
C19_Witness ==
    /\ FullscreenSettled
    /\ isFullscreen /\ fullscreenElement
    /\ issued = NoCall /\ ~isLoading /\ ~hasError /\ isPlaying

====
